---- MODULE Spec2Model ----
(***************************************************************************)
(* H2O Tender: the goal calculator, the reminder-schedule generator, the   *)
(* skip redistribution and the daily-state machine held by AppProvider     *)
(* (React state settings / dailyState, AsyncStorage persistence, the       *)
(* notification transport), with every asynchronous operation split at its *)
(* awaits so that operations started from the same render can interleave.  *)
(***************************************************************************)
EXTENDS Integers, Sequences, FiniteSets, TLC

VARIABLES
    today,          \* calendar date returned by getTodayDate()
    settings,       \* AppProvider state: UserSettings | null
    dailyState,     \* AppProvider state: DailyState | null
    isLoading,      \* AppProvider state
    storedSettings, \* AsyncStorage item @h2o_tender:settings
    storedDaily,    \* AsyncStorage items @h2o_tender:daily_state:<date>
    transport,      \* notifications held by the platform scheduler
    screen,         \* SettingsScreen: its local copies of the profile fields
    tasks,          \* asynchronous operations in flight, oldest first
    result,         \* how the operation that finished last ended: "ok" or "rejected"
    nOps,           \* number of user / notification operations started
    calc            \* a call of a function of utils/hydration.ts: arguments and value

vars == <<today, settings, dailyState, isLoading, storedSettings, storedDaily,
          transport, screen, tasks, result, nOps, calc>>

----------------------------------------------------------------------------
(* Bounds of the model *)

MaxDay == 2
MaxOps == 2
MaxTasks == 2
MaxConsumed == 3000

FirstDay == 1
Days == 0..MaxDay

Amounts == {250, 1500}

NULL == [isNull |-> TRUE]

----------------------------------------------------------------------------
(* Pure functions of utils/hydration.ts *)

Max(a, b) == IF a >= b THEN a ELSE b

\* Math.round(p / q) for q > 0: floor(p/q + 1/2)
MathRound(p, q) == (2 * p + q) \div (2 * q)

ML_PER_KG == 32

climateAdjustments ==
    [cold |-> -200, mild |-> 0, hot |-> 300, veryHot |-> 500]

activityAdjustments ==
    [none |-> 0, light |-> 200, moderate |-> 500, heavy |-> 800]

\* variant: the total cut down to a multiple of 10
calculateDailyGoal_Truncates(weight, climate, activity) ==
    LET base == weight * ML_PER_KG
        total == base + climateAdjustments[climate] + activityAdjustments[activity]
    IN  (total \div 10) * 10

calculateDailyGoal(weight, climate, activity) ==
    LET base == weight * ML_PER_KG
        total == base + climateAdjustments[climate] + activityAdjustments[activity]
    IN  MathRound(total, 10) * 10

\* "HH:MM" strings are kept as their two numbers
Time(h, m) == [h |-> h, m |-> m]

parseTimeToMinutes(timeStr) == timeStr.h * 60 + timeStr.m

formatMinutesToTime(minutes) == [h |-> minutes \div 60, m |-> minutes % 60]

\* variant: the first reminder one interval after waking
computeReminderSchedule_StartsLate(wakeTime, sleepTime, frequency, dailyGoalML) ==
    LET wakeMinutes == parseTimeToMinutes(wakeTime)
        sleepMinutes == parseTimeToMinutes(sleepTime)
        diff == sleepMinutes - wakeMinutes
        awakeDuration == IF diff < 0 THEN diff + 24 * 60 ELSE diff
        numberOfReminders == awakeDuration \div frequency
        mlPerReminder == MathRound(dailyGoalML, numberOfReminders * 10) * 10
    IN  IF numberOfReminders <= 0
        THEN <<>>
        ELSE [k \in 1..numberOfReminders |->
                [time |-> formatMinutesToTime((wakeMinutes + k * frequency) % (24 * 60)),
                 amountML |-> mlPerReminder,
                 index |-> k - 1]]

\* variant: the share of the goal without rounding to 10 ml
computeReminderSchedule_ExactShare(wakeTime, sleepTime, frequency, dailyGoalML) ==
    LET wakeMinutes == parseTimeToMinutes(wakeTime)
        sleepMinutes == parseTimeToMinutes(sleepTime)
        diff == sleepMinutes - wakeMinutes
        awakeDuration == IF diff < 0 THEN diff + 24 * 60 ELSE diff
        numberOfReminders == awakeDuration \div frequency
        mlPerReminder == dailyGoalML \div numberOfReminders
    IN  IF numberOfReminders <= 0
        THEN <<>>
        ELSE [k \in 1..numberOfReminders |->
                [time |-> formatMinutesToTime((wakeMinutes + (k - 1) * frequency) % (24 * 60)),
                 amountML |-> mlPerReminder,
                 index |-> k - 1]]

computeReminderSchedule(wakeTime, sleepTime, frequency, dailyGoalML) ==
    LET wakeMinutes == parseTimeToMinutes(wakeTime)
        sleepMinutes == parseTimeToMinutes(sleepTime)
        diff == sleepMinutes - wakeMinutes
        awakeDuration == IF diff < 0 THEN diff + 24 * 60 ELSE diff
        numberOfReminders == awakeDuration \div frequency
        mlPerReminder == MathRound(dailyGoalML, numberOfReminders * 10) * 10
    IN  IF numberOfReminders <= 0
        THEN <<>>
        ELSE [k \in 1..numberOfReminders |->
                [time |-> formatMinutesToTime((wakeMinutes + (k - 1) * frequency) % (24 * 60)),
                 amountML |-> mlPerReminder,
                 index |-> k - 1]]

\* variant: only the number of reminders is tested
redistributeOnSkip_IgnoresSurplus(totalGoal, consumed, remindersLeft) ==
    LET remaining == totalGoal - consumed
    IN  IF remindersLeft <= 0
        THEN 0
        ELSE MathRound(remaining, remindersLeft * 10) * 10

\* variant: the share cut down to a multiple of 10
redistributeOnSkip_Truncates(totalGoal, consumed, remindersLeft) ==
    LET remaining == totalGoal - consumed
    IN  IF remindersLeft <= 0 \/ remaining <= 0
        THEN 0
        ELSE (remaining \div (remindersLeft * 10)) * 10

redistributeOnSkip(totalGoal, consumed, remindersLeft) ==
    LET remaining == totalGoal - consumed
    IN  IF remindersLeft <= 0 \/ remaining <= 0
        THEN 0
        ELSE MathRound(remaining, remindersLeft * 10) * 10

\* no call of these functions is being followed
NoCall == [fn |-> "none", returned |-> FALSE]

----------------------------------------------------------------------------
(* Data model of models/types.ts *)

DEFAULT_SETTINGS ==
    [weight |-> 70, activity |-> "light", wakeTime |-> Time(7, 0),
     sleepTime |-> Time(22, 0), reminderFrequency |-> 90, climate |-> "mild",
     dailyGoalML |-> 2240, onboardingComplete |-> FALSE]

DEFAULT_DAILY_STATE ==
    [consumedML |-> 0, remainingML |-> 0, remindersCompleted |-> 0,
     remindersSkipped |-> 0, scheduledReminderIds |-> <<>>]

\* { ...DEFAULT_DAILY_STATE, date, remainingML }
NewDay(date, remaining) ==
    [date |-> date, consumedML |-> 0, remainingML |-> remaining,
     remindersCompleted |-> 0, remindersSkipped |-> 0,
     scheduledReminderIds |-> <<>>]

\* a profile as the onboarding flow stores it
Profile(w, c, a, wake, sleep, f) ==
    [weight |-> w, activity |-> a, wakeTime |-> wake, sleepTime |-> sleep,
     reminderFrequency |-> f, climate |-> c,
     dailyGoalML |-> calculateDailyGoal(w, c, a), onboardingComplete |-> TRUE]

----------------------------------------------------------------------------
(* Inputs the model draws from *)

P0 == Profile(70, "mild", "light", Time(8, 0), Time(11, 0), 60)

\* what the onboarding screen passes when it completes: every field, with
\* the goal it computed itself
OnboardingUpdate == Profile(20, "cold", "none", Time(8, 0), Time(11, 0), 60)

Updates ==
    { [weight |-> 20],
      [dailyGoalML |-> 1000],
      [onboardingComplete |-> FALSE],
      OnboardingUpdate }

\* after the first reminder of P0 has fired, and after the last one
ClockTimes == { Time(8, 30), Time(10, 30) }

\* the amount a notification of P0 carries
DrinkAmounts == { 810 }

Yesterday ==
    [date |-> 0, consumedML |-> 250, remainingML |-> 2190,
     remindersCompleted |-> 1, remindersSkipped |-> 1,
     scheduledReminderIds |-> <<>>]

\* a day in progress, as saved after a 1500 ml drink, two completed reminders
\* and one skipped
Midday ==
    [date |-> FirstDay, consumedML |-> 1500, remainingML |-> 940,
     remindersCompleted |-> 2, remindersSkipped |-> 1,
     scheduledReminderIds |-> <<>>]

----------------------------------------------------------------------------
(* SettingsScreen: local state for immediate UI updates *)

ScreenFields ==
    {"weight", "activity", "wakeTime", "sleepTime", "reminderFrequency", "climate"}

\* useState(settings?.weight || 70), ... with no settings
InitialScreen ==
    [weight |-> 70, activity |-> "light", wakeTime |-> Time(7, 0),
     sleepTime |-> Time(22, 0), reminderFrequency |-> 90, climate |-> "mild"]

\* the effect on [settings]: the local fields follow the settings that were set
SyncedScreen(s) == IF s = NULL THEN screen ELSE [f \in ScreenFields |-> s[f]]

\* setWeight(newWeight), setWakeTime(newTime), ...
EditedScreen(updates) ==
    [f \in ScreenFields |-> IF f \in DOMAIN updates THEN updates[f] ELSE screen[f]]

----------------------------------------------------------------------------
(* Operations in flight: op is the handler, pc its next step, s and d the   *)
(* settings and dailyState of the render it was started from, a its amount  *)
(* (remindersLeft for a skip), upd its updates, out the value it is saving,  *)
(* day the calendar date when it started, rem the reminders it works on,     *)
(* win the wake and sleep time it passes to the transport                    *)

Task(op, pc, s, d, a, upd, out, day, rem, win) ==
    [op |-> op, pc |-> pc, s |-> s, d |-> d, a |-> a, upd |-> upd,
     out |-> out, day |-> day, rem |-> rem, win |-> win]

Remove(seq, i) == [k \in 1..(Len(seq) - 1) |-> IF k < i THEN seq[k] ELSE seq[k + 1]]

NoResult == "none"

\* room for one more operation
CanCall == nOps < MaxOps /\ Len(tasks) < MaxTasks

\* the screens and the notification listener exist once the load has finished
CanStart == CanCall /\ ~isLoading

\* variant: the operation returns without an error
Rejects_Silently ==
    /\ result' = "ok"
    /\ nOps' = nOps + 1
    /\ UNCHANGED <<today, settings, dailyState, isLoading, storedSettings,
                   storedDaily, transport, tasks, screen, calc>>

\* the operation throws before its first await
Rejects ==
    /\ result' = "rejected"
    /\ nOps' = nOps + 1
    /\ UNCHANGED <<today, settings, dailyState, isLoading, storedSettings,
                   storedDaily, transport, tasks, screen, calc>>

\* the operation reaches its first await
Starts(task) ==
    /\ tasks' = Append(tasks, task)
    /\ nOps' = nOps + 1
    /\ UNCHANGED <<today, settings, dailyState, isLoading, storedSettings,
                   storedDaily, transport, result, screen, calc>>

Init ==
    /\ today = FirstDay
    /\ settings = NULL
    /\ dailyState = NULL
    /\ isLoading = TRUE
    /\ \E st \in {<<NULL, NULL>>, <<P0, NULL>>, <<P0, Yesterday>>, <<P0, Midday>>} :
         /\ storedSettings = st[1]
         /\ storedDaily = [dt \in Days |-> IF st[2] # NULL /\ dt = st[2].date
                                           THEN st[2] ELSE NULL]
    /\ transport = <<>>
    /\ screen = InitialScreen
    /\ tasks = << Task("loadInitialData", "loadSettings", NULL, NULL, 0, NULL, NULL, 0, <<>>, NULL) >>
    /\ result = NoResult
    /\ nOps = 0
    /\ calc = NoCall

----------------------------------------------------------------------------
(* services/persistence.ts *)

loadSettings == storedSettings

loadDailyState(date) ==
    IF storedDaily[date] = NULL
    THEN NewDay(date, DEFAULT_DAILY_STATE.remainingML)
    ELSE storedDaily[date]

\* AsyncStorage.setItem of saveDailyState completes
saveDailyState(i) ==
    /\ i \in 1..Len(tasks)
    /\ tasks[i].pc \in {"write", "writeFirst"}
    /\ storedDaily' = [storedDaily EXCEPT ![tasks[i].out.date] = tasks[i].out]
    /\ tasks' = [tasks EXCEPT ![i].pc =
                    IF tasks[i].pc = "write" THEN "resume" ELSE "resumeFirst"]
    /\ UNCHANGED <<today, settings, dailyState, isLoading, storedSettings,
                   transport, result, nOps, screen, calc>>

\* AsyncStorage.setItem of saveSettings completes
saveSettings(i) ==
    /\ i \in 1..Len(tasks)
    /\ tasks[i].pc = "writeSettings"
    /\ storedSettings' = tasks[i].out
    /\ tasks' = [tasks EXCEPT ![i].pc = "resumeSettings"]
    /\ UNCHANGED <<today, settings, dailyState, isLoading, storedDaily,
                   transport, result, nOps, screen, calc>>

\* a write rejects: the operation's catch block rethrows, nothing is set
saveFails(i) ==
    /\ i \in 1..Len(tasks)
    /\ tasks[i].pc \in {"write", "writeFirst", "writeSettings"}
    /\ tasks' = Remove(tasks, i)
    /\ result' = "rejected"
    /\ isLoading' = IF tasks[i].op = "loadInitialData" THEN FALSE ELSE isLoading
    /\ UNCHANGED <<today, settings, dailyState, storedSettings, storedDaily,
                   transport, nOps, screen, calc>>

----------------------------------------------------------------------------
(* context/AppContext.tsx: initial load and refresh *)

\* await loadSettings() returns; setSettings; getTodayDate(); loadDailyState is issued
loadSettingsDone(i) ==
    /\ i \in 1..Len(tasks)
    /\ tasks[i].pc = "loadSettings"
    /\ settings' = loadSettings
    /\ screen' = SyncedScreen(loadSettings)
    /\ UNCHANGED calc
    /\ tasks' = [tasks EXCEPT ![i].pc = "loadDaily", ![i].s = loadSettings,
                              ![i].day = today]
    /\ UNCHANGED <<today, dailyState, isLoading, storedSettings, storedDaily,
                   transport, result, nOps>>

\* await loadDailyState(today) returns
loadInitialData(i) ==
    /\ i \in 1..Len(tasks)
    /\ tasks[i].op = "loadInitialData"
    /\ tasks[i].pc = "loadDaily"
    /\ LET t == tasks[i]
           loadedState == loadDailyState(t.day)
       IN  IF loadedState.date # t.day
           THEN IF t.s = NULL
                THEN \* loadedSettings.dailyGoalML throws on null
                     /\ tasks' = Remove(tasks, i)
                     /\ result' = "rejected"
                     /\ isLoading' = FALSE
                     /\ UNCHANGED dailyState
                ELSE /\ tasks' = [tasks EXCEPT ![i].pc = "write",
                                     ![i].out = NewDay(t.day, t.s.dailyGoalML)]
                     /\ UNCHANGED <<result, isLoading, dailyState>>
           ELSE /\ dailyState' = loadedState
                /\ tasks' = Remove(tasks, i)
                /\ result' = "ok"
                /\ isLoading' = FALSE
    /\ UNCHANGED <<today, settings, storedSettings, storedDaily, transport, nOps, screen, calc>>

refreshData ==
    /\ CanStart
    /\ tasks' = Append(tasks, Task("refreshData", "loadSettings", NULL, NULL, 0,
                                   NULL, NULL, 0, <<>>, NULL))
    /\ isLoading' = TRUE
    /\ nOps' = nOps + 1
    /\ UNCHANGED <<today, settings, dailyState, storedSettings, storedDaily,
                   transport, result, screen, calc>>

refreshDataDone(i) ==
    /\ i \in 1..Len(tasks)
    /\ tasks[i].op = "refreshData"
    /\ tasks[i].pc = "loadDaily"
    /\ dailyState' = loadDailyState(tasks[i].day)
    /\ tasks' = Remove(tasks, i)
    /\ result' = "ok"
    /\ isLoading' = FALSE
    /\ UNCHANGED <<today, settings, storedSettings, storedDaily, transport, nOps, screen, calc>>

----------------------------------------------------------------------------
(* context/AppContext.tsx: the rollover interval *)

\* the clock passes midnight
AdvanceDay ==
    /\ today < MaxDay
    /\ today' = today + 1
    /\ UNCHANGED <<settings, dailyState, isLoading, storedSettings, storedDaily,
                   transport, tasks, result, nOps, screen, calc>>

\* variant: the new day starts from DEFAULT_DAILY_STATE.remainingML, not the goal
RolloverState_NoGoal(s, date) == NewDay(date, DEFAULT_DAILY_STATE.remainingML)

\* variant: the new state is dated by a clock that is one day behind getTodayDate()
RolloverState_StaleDate(s, date) ==
    NewDay(date - 1, IF s = NULL THEN 0 ELSE s.dailyGoalML)

RolloverState(s, date) == NewDay(date, IF s = NULL THEN 0 ELSE s.dailyGoalML)

\* the interval callback runs up to its await; ticks are 60 s apart, so the
\* save of the previous tick is no longer pending when the next one runs
rolloverTick ==
    /\ Len(tasks) < MaxTasks
    /\ \A k \in 1..Len(tasks) : tasks[k].op # "rollover"
    /\ dailyState # NULL
    /\ dailyState.date # today
    /\ tasks' = Append(tasks, Task("rollover", "write", settings, dailyState, 0,
                                   NULL, RolloverState(settings, today), today, <<>>, NULL))
    /\ UNCHANGED <<today, settings, dailyState, isLoading, storedSettings,
                   storedDaily, transport, result, nOps, screen, calc>>

----------------------------------------------------------------------------
(* context/AppContext.tsx: operations of the context *)

Has(updates, field) == field \in DOMAIN updates

\* { ...settings, ...updates } with the goal recomputed when a factor is given
NewSettings(s, updates) ==
    LET merged == [f \in DOMAIN s |-> IF Has(updates, f) THEN updates[f] ELSE s[f]]
    IN  IF Has(updates, "weight") \/ Has(updates, "climate") \/ Has(updates, "activity")
        THEN [merged EXCEPT !["dailyGoalML"] =
                 calculateDailyGoal(merged["weight"], merged["climate"], merged["activity"])]
        ELSE merged

\* variant: with no profile loaded the updates are applied to the defaults
updateSettingsCall_Creates(updates) ==
    LET base == IF settings = NULL THEN DEFAULT_SETTINGS ELSE settings
    IN  Starts(Task("updateSettings", "writeSettings", base, dailyState, 0,
                    updates, NewSettings(base, updates), today, <<>>, NULL))

\* the function, up to its first await
updateSettingsCall(updates) ==
    IF settings = NULL
    THEN Rejects
    ELSE Starts(Task("updateSettings", "writeSettings", settings, dailyState, 0,
                     updates, NewSettings(settings, updates), today, <<>>, NULL))

updateSettings(updates) == CanStart /\ updateSettingsCall(updates)

\* updates.dailyGoalML is truthy
GoalGiven(updates) == Has(updates, "dailyGoalML") /\ updates["dailyGoalML"] # 0

RemainingAfterUpdate(d, updates) == updates["dailyGoalML"] - d.consumedML

\* variant: a new goal starts the day's ledger afresh
UpdatedDailyState_Resets(d, updates) == NewDay(d.date, updates["dailyGoalML"])

\* { ...dailyState, remainingML }
UpdatedDailyState(d, updates) ==
    [d EXCEPT !.remainingML = RemainingAfterUpdate(d, updates)]

\* await saveSettings returns: setSettings, then the dailyState branch
updateSettingsContinues(i) ==
    /\ i \in 1..Len(tasks)
    /\ tasks[i].pc = "resumeSettings"
    /\ settings' = tasks[i].out
    /\ screen' = SyncedScreen(tasks[i].out)
    /\ UNCHANGED calc
    /\ LET t == tasks[i]
       IN  IF t.d # NULL /\ GoalGiven(t.upd)
           THEN /\ tasks' = [tasks EXCEPT ![i].pc = "write",
                               ![i].out = UpdatedDailyState(t.d, t.upd)]
                /\ UNCHANGED result
           ELSE IF t.op = "handleScheduleChange"
                THEN \* the handler goes on to rescheduleNotifications
                     /\ tasks' = [tasks EXCEPT ![i].pc = "cancel"]
                     /\ UNCHANGED result
                ELSE IF t.op = "handleComplete"
                THEN \* the handler goes on to scheduleReminders
                     /\ tasks' = [tasks EXCEPT ![i].pc = "schedule"]
                     /\ UNCHANGED result
                ELSE /\ tasks' = Remove(tasks, i)
                     /\ result' = "ok"
    /\ UNCHANGED <<today, dailyState, isLoading, storedSettings, storedDaily,
                   transport, nOps>>

\* variant: remainingML without the Math.max(0, ...)
ConsumptionState_Unclamped(s, d, amountML) ==
    LET newConsumed == d.consumedML + amountML
    IN  [d EXCEPT !.consumedML = newConsumed,
                  !.remainingML = s.dailyGoalML - newConsumed]

ConsumptionState(s, d, amountML) ==
    LET newConsumed == d.consumedML + amountML
        newRemaining == Max(0, s.dailyGoalML - newConsumed)
    IN  [d EXCEPT !.consumedML = newConsumed, !.remainingML = newRemaining]

\* variant: the skipped reminder's share is taken off what remains to drink
SkippedState_LowersRemaining(d) ==
    [d EXCEPT !.remindersSkipped = d.remindersSkipped + 1, !.remainingML = 0]

SkippedState(d) == [d EXCEPT !.remindersSkipped = d.remindersSkipped + 1]

CompletedState(d) == [d EXCEPT !.remindersCompleted = d.remindersCompleted + 1]

Loaded == settings # NULL /\ dailyState # NULL

\* the functions of the context, each up to its first await
recordConsumptionCall(amountML) ==
    IF ~Loaded
    THEN Rejects
    ELSE /\ dailyState.consumedML + amountML <= MaxConsumed
         /\ Starts(Task("recordConsumption", "write", settings, dailyState,
                        amountML, NULL,
                        ConsumptionState(settings, dailyState, amountML), today, <<>>, NULL))

skipReminderCall ==
    IF dailyState = NULL
    THEN Rejects
    ELSE Starts(Task("skipReminder", "write", settings, dailyState, 0, NULL,
                     SkippedState(dailyState), today, <<>>, NULL))

completeReminderCall ==
    IF dailyState = NULL
    THEN Rejects
    ELSE Starts(Task("completeReminder", "write", settings, dailyState, 0, NULL,
                     CompletedState(dailyState), today, <<>>, NULL))

resetDayCall ==
    IF settings = NULL
    THEN Rejects
    ELSE Starts(Task("resetDay", "write", settings, dailyState, 0, NULL,
                     NewDay(today, settings.dailyGoalML), today, <<>>, NULL))

recordConsumption(amountML) == CanStart /\ recordConsumptionCall(amountML)

completeReminder == CanStart /\ completeReminderCall

resetDay == CanStart /\ resetDayCall

----------------------------------------------------------------------------
(* services/notifications.ts: the reminder transport *)

\* variant: the window is taken to lie within one day
isWithinActiveHours_SameDayOnly(reminder, wakeHour, wakeMinute, sleepHour, sleepMinute) ==
    LET reminderMinutes == reminder.hour * 60 + reminder.minute
        wakeMinutes == wakeHour * 60 + wakeMinute
        sleepMinutes == sleepHour * 60 + sleepMinute
    IN  reminderMinutes >= wakeMinutes /\ reminderMinutes <= sleepMinutes

isWithinActiveHours(reminder, wakeHour, wakeMinute, sleepHour, sleepMinute) ==
    LET reminderMinutes == reminder.hour * 60 + reminder.minute
        wakeMinutes == wakeHour * 60 + wakeMinute
        sleepMinutes == sleepHour * 60 + sleepMinute
    IN  IF sleepMinutes > wakeMinutes
        THEN reminderMinutes >= wakeMinutes /\ reminderMinutes <= sleepMinutes
        ELSE reminderMinutes >= wakeMinutes \/ reminderMinutes <= sleepMinutes

\* the notifications scheduleReminders creates, in order
Scheduled(schedule, wakeTime, sleepTime) ==
    LET Active(r) == isWithinActiveHours(r, wakeTime.h, wakeTime.m, sleepTime.h, sleepTime.m)
    IN  SelectSeq(schedule, Active)

\* Notifications.cancelAllScheduledNotificationsAsync completes
cancelAllReminders(i) ==
    /\ i \in 1..Len(tasks)
    /\ tasks[i].pc \in {"cancel", "cancelOnly"}
    /\ transport' = <<>>
    /\ IF tasks[i].pc = "cancel"
       THEN /\ tasks' = [tasks EXCEPT ![i].pc = "schedule"]
            /\ UNCHANGED result
       ELSE /\ tasks' = Remove(tasks, i)
            /\ result' = "ok"
    /\ UNCHANGED <<today, settings, dailyState, isLoading, storedSettings,
                   storedDaily, nOps, screen, calc>>

\* the loop of scheduleReminders completes
scheduleReminders(i) ==
    /\ i \in 1..Len(tasks)
    /\ tasks[i].pc = "schedule"
    /\ transport' = transport \o Scheduled(tasks[i].rem, tasks[i].win.wakeTime,
                                           tasks[i].win.sleepTime)
    /\ tasks' = Remove(tasks, i)
    /\ result' = "ok"
    /\ UNCHANGED <<today, settings, dailyState, isLoading, storedSettings,
                   storedDaily, nOps, screen, calc>>

\* variant: a failed transport call puts the DailyState of the render back
transportFails_RollsBack(i) ==
    /\ i \in 1..Len(tasks)
    /\ tasks[i].pc \in {"cancel", "cancelOnly", "schedule"}
    /\ tasks' = Remove(tasks, i)
    /\ result' = "rejected"
    /\ dailyState' = tasks[i].d
    /\ UNCHANGED <<today, settings, isLoading, storedSettings,
                   storedDaily, transport, nOps, screen, calc>>

\* the platform scheduler rejects the call; rescheduleNotifications of the
\* SettingsScreen catches and logs it, the other callers end with the error
transportFails(i) ==
    /\ i \in 1..Len(tasks)
    /\ tasks[i].pc \in {"cancel", "cancelOnly", "schedule"}
    /\ tasks' = Remove(tasks, i)
    /\ result' = IF tasks[i].op = "handleScheduleChange" THEN "ok" ELSE "rejected"
    /\ UNCHANGED <<today, settings, dailyState, isLoading, storedSettings,
                   storedDaily, transport, nOps, screen, calc>>

----------------------------------------------------------------------------
(* Handlers that call the context: the notification listener of AppProvider *)
(* and HomeScreen.handleSkipReminder                                        *)

\* onDrink of the listener: recordConsumption(mlAmount) up to its await
drinkNow(mlAmount) ==
    /\ CanStart
    /\ Loaded
    /\ dailyState.consumedML + mlAmount <= MaxConsumed
    /\ Starts(Task("drinkNow", "writeFirst", settings, dailyState, mlAmount, NULL,
                   ConsumptionState(settings, dailyState, mlAmount), today, <<>>, NULL))

\* recordConsumption resolves; completeReminder() of the same render runs up to its await
drinkNowContinues(i) ==
    /\ i \in 1..Len(tasks)
    /\ tasks[i].pc = "resumeFirst"
    /\ dailyState' = tasks[i].out
    /\ tasks' = [tasks EXCEPT ![i].pc = "write", ![i].out = CompletedState(tasks[i].d)]
    /\ UNCHANGED <<today, settings, isLoading, storedSettings, storedDaily,
                   transport, result, nOps, screen, calc>>

\* schedule.filter(reminderMinutes > currentMinutes)
RemainingReminders(schedule, currentTime) ==
    LET currentMinutes == currentTime.h * 60 + currentTime.m
        Later(reminder) == reminder.time.h * 60 + reminder.time.m > currentMinutes
    IN  SelectSeq(schedule, Later)

\* onSkip of the listener: handleSkipFromNotification up to the await in skipReminder;
\* the task keeps remindersLeft in a, currentTime in upd and remainingReminders in rem
handleSkipFromNotificationCall(currentTime) ==
    IF ~Loaded
    THEN Rejects
    ELSE LET schedule == computeReminderSchedule(settings.wakeTime, settings.sleepTime,
                             settings.reminderFrequency, settings.dailyGoalML)
             remainingReminders == RemainingReminders(schedule, currentTime)
             remindersLeft == Len(remainingReminders) - 1
         IN  Starts(Task("handleSkipFromNotification", "write", settings, dailyState,
                         remindersLeft, currentTime, SkippedState(dailyState), today,
                         remainingReminders,
                         [wakeTime |-> settings.wakeTime,
                          sleepTime |-> settings.sleepTime]))

\* the listener is registered once settings and dailyState are loaded
handleSkipFromNotification(currentTime) ==
    /\ CanStart
    /\ Loaded
    /\ handleSkipFromNotificationCall(currentTime)

NewSchedule(remainingReminders, mlAmount) ==
    [k \in 1..(Len(remainingReminders) - 1) |->
        [hour |-> remainingReminders[k + 1].time.h,
         minute |-> remainingReminders[k + 1].time.m,
         mlAmount |-> mlAmount]]

\* skipReminder resolves (setDailyState); the handler goes on to the transport
handleSkipContinues(i) ==
    /\ i \in 1..Len(tasks)
    /\ tasks[i].pc = "resume"
    /\ tasks[i].op = "handleSkipFromNotification"
    /\ dailyState' = tasks[i].out
    /\ LET t == tasks[i]
           remindersLeft == t.a
           newAmountPerReminder ==
               redistributeOnSkip(t.s.dailyGoalML, t.d.consumedML, remindersLeft)
       IN  IF remindersLeft > 0
           THEN tasks' = [tasks EXCEPT ![i].pc = "cancel",
                             ![i].rem = NewSchedule(t.rem, newAmountPerReminder)]
           ELSE tasks' = [tasks EXCEPT ![i].pc = "cancelOnly"]
    /\ UNCHANGED <<today, settings, isLoading, storedSettings, storedDaily,
                   transport, result, nOps, screen, calc>>

\* HomeScreen: the reminders the next-reminder effect chooses from when it runs
\* at currentTime (not before the index completed + skipped, later than now)
Upcoming(s, d, currentTime) ==
    LET schedule == computeReminderSchedule(s.wakeTime, s.sleepTime,
                        s.reminderFrequency, s.dailyGoalML)
        currentReminderIndex == d.remindersCompleted + d.remindersSkipped
        currentMinutes == currentTime.h * 60 + currentTime.m
        Candidate(reminder) ==
            /\ reminder.index >= currentReminderIndex
            /\ reminder.time.h * 60 + reminder.time.m > currentMinutes
    IN  SelectSeq(schedule, Candidate)

\* HomeScreen.handleSkipReminder, reached from the skip button of the next-reminder
\* card (shown while there is a next reminder and the goal is not reached):
\* remindersLeft (kept in a) for the alert, then skipReminder()
handleSkipReminder ==
    /\ CanStart
    /\ Loaded
    /\ \E currentTime \in ClockTimes : Upcoming(settings, dailyState, currentTime) # <<>>
    /\ dailyState.consumedML < settings.dailyGoalML
    /\ LET schedule == computeReminderSchedule(settings.wakeTime, settings.sleepTime,
                           settings.reminderFrequency, settings.dailyGoalML)
           remindersLeft == Len(schedule) - dailyState.remindersCompleted
                                - dailyState.remindersSkipped - 1
       IN  Starts(Task("handleSkipReminder", "write", settings, dailyState,
                       remindersLeft, NULL, SkippedState(dailyState), today, <<>>, NULL))

----------------------------------------------------------------------------
(* SettingsScreen and AIOnboardingScreen: handlers that call updateSettings  *)
(* and the transport                                                        *)

\* what the settings screen lets the user change
GoalEdits == { [weight |-> 20] }

ScheduleEdits == { [wakeTime |-> Time(9, 0)], [reminderFrequency |-> 90] }

\* schedule.map(reminder => ({ hour, minute, mlAmount: reminder.amountML }))
NotificationSchedule(schedule) ==
    [k \in 1..Len(schedule) |->
        [hour |-> schedule[k].time.h, minute |-> schedule[k].time.m,
         mlAmount |-> schedule[k].amountML]]

\* handleWeightChange / handleActivityChange / handleClimateChange:
\* setWeight(newWeight), then updateSettings({ weight: newWeight })
handleGoalFactorChange(updates) ==
    /\ CanStart
    /\ Loaded
    /\ screen' = EditedScreen(updates)
    /\ UNCHANGED calc
    /\ tasks' = Append(tasks, Task("handleGoalFactorChange", "writeSettings", settings,
                                   dailyState, 0, updates,
                                   NewSettings(settings, updates), today, <<>>, NULL))
    /\ nOps' = nOps + 1
    /\ UNCHANGED <<today, settings, dailyState, isLoading, storedSettings,
                   storedDaily, transport, result>>

\* handleWakeTimeChange / handleSleepTimeChange / handleReminderFrequencyChange:
\* setWakeTime(newTime), then updateSettings({ wakeTime: newTime }) up to its
\* await; the task keeps what rescheduleNotifications of this render will
\* compute from the new value and the local fields: the schedule in rem,
\* wake and sleep in win
handleScheduleChange(updates) ==
    /\ CanStart
    /\ Loaded
    /\ screen' = EditedScreen(updates)
    /\ UNCHANGED calc
    /\ LET local == EditedScreen(updates)
           goal == calculateDailyGoal(local.weight, local.climate, local.activity)
           schedule == computeReminderSchedule(local.wakeTime, local.sleepTime,
                           local.reminderFrequency, goal)
       IN  tasks' = Append(tasks, Task("handleScheduleChange", "writeSettings", settings,
                                      dailyState, 0, updates,
                                      NewSettings(settings, updates), today,
                                      NotificationSchedule(schedule),
                                      [wakeTime |-> local.wakeTime,
                                       sleepTime |-> local.sleepTime]))
    /\ nOps' = nOps + 1
    /\ UNCHANGED <<today, settings, dailyState, isLoading, storedSettings,
                   storedDaily, transport, result>>

\* AIOnboardingScreen.handleComplete: the goal and the schedule of the answers,
\* then updateSettings with every field up to its await; the error of a
\* missing profile is caught and shown
handleComplete ==
    /\ CanStart
    /\ IF settings = NULL
       THEN Rejects
       ELSE LET data == OnboardingUpdate
                dailyGoalML == calculateDailyGoal(data.weight, data.climate, data.activity)
                reminderSchedule == computeReminderSchedule(data.wakeTime, data.sleepTime,
                                        data.reminderFrequency, dailyGoalML)
            IN  Starts(Task("handleComplete", "writeSettings", settings, dailyState, 0,
                            data, NewSettings(settings, data), today,
                            NotificationSchedule(reminderSchedule),
                            [wakeTime |-> data.wakeTime, sleepTime |-> data.sleepTime]))

\* updateSettings resolves in handleComplete (setDailyState of its dailyState
\* branch); the handler goes on to scheduleReminders
handleCompleteContinues(i) ==
    /\ i \in 1..Len(tasks)
    /\ tasks[i].pc = "resume"
    /\ tasks[i].op = "handleComplete"
    /\ dailyState' = tasks[i].out
    /\ tasks' = [tasks EXCEPT ![i].pc = "schedule"]
    /\ UNCHANGED <<today, settings, isLoading, storedSettings, storedDaily,
                   transport, result, nOps, screen, calc>>

\* await saveDailyState returns in an operation whose last step is setDailyState
setDailyState(i) ==
    /\ i \in 1..Len(tasks)
    /\ tasks[i].pc = "resume"
    /\ tasks[i].op \notin {"handleSkipFromNotification", "handleComplete"}
    /\ dailyState' = tasks[i].out
    /\ tasks' = Remove(tasks, i)
    /\ result' = "ok"
    /\ isLoading' = IF tasks[i].op = "loadInitialData" THEN FALSE ELSE isLoading
    /\ UNCHANGED <<today, settings, storedSettings, storedDaily, transport, nOps, screen, calc>>

----------------------------------------------------------------------------
(* The program *)

Step(i) ==
    \/ loadSettingsDone(i)
    \/ loadInitialData(i)
    \/ refreshDataDone(i)
    \/ saveDailyState(i)
    \/ saveSettings(i)
    \/ saveFails(i)
    \/ updateSettingsContinues(i)
    \/ drinkNowContinues(i)
    \/ handleSkipContinues(i)
    \/ handleCompleteContinues(i)
    \/ setDailyState(i)
    \/ cancelAllReminders(i)
    \/ scheduleReminders(i)
    \/ transportFails(i)

Next ==
    \/ \E i \in 1..MaxTasks : Step(i)
    \/ AdvanceDay
    \/ rolloverTick
    \/ refreshData
    \/ resetDay
    \/ completeReminder
    \/ handleSkipReminder
    \/ handleComplete
    \/ \E updates \in GoalEdits : handleGoalFactorChange(updates)
    \/ \E updates \in ScheduleEdits : handleScheduleChange(updates)
    \/ \E updates \in Updates : updateSettings(updates)
    \/ \E amountML \in Amounts : recordConsumption(amountML)
    \/ \E mlAmount \in DrinkAmounts : drinkNow(mlAmount)
    \/ \E currentTime \in ClockTimes : handleSkipFromNotification(currentTime)

Spec == Init /\ [][Next]_vars

----------------------------------------------------------------------------------------------------------------------------------------
(* The day's ledger alone: load, consumption, reminder counts and the       *)
(* rollover, with saves that may fail                                       *)

DayStep(i) ==
    \/ loadSettingsDone(i)
    \/ loadInitialData(i)
    \/ saveDailyState(i)
    \/ saveFails(i)
    \/ setDailyState(i)

DayNext ==
    \/ \E i \in 1..MaxTasks : DayStep(i)
    \/ AdvanceDay
    \/ rolloverTick
    \/ completeReminder
    \/ handleSkipReminder
    \/ \E amountML \in Amounts : recordConsumption(amountML)

DaySpec == Init /\ [][DayNext]_vars

----------------------------------------------------------------------------
(* The rollover under fair scheduling: every pending await returns, the     *)
(* interval keeps firing, saves succeed, user operations are finitely many  *)

LiveStep(i) ==
    \/ loadSettingsDone(i)
    \/ loadInitialData(i)
    \/ saveDailyState(i)
    \/ setDailyState(i)

LiveNext ==
    \/ \E i \in 1..MaxTasks : LiveStep(i)
    \/ AdvanceDay
    \/ rolloverTick
    \/ completeReminder
    \/ \E amountML \in Amounts : recordConsumption(amountML)

LiveSpec ==
    /\ Init
    /\ [][LiveNext]_vars
    /\ \A i \in 1..MaxTasks : WF_vars(LiveStep(i))
    /\ WF_vars(rolloverTick)

----------------------------------------------------------------------------
(* Skipping: the Home-screen skip and the notification skip with its calls  *)
(* to the transport, which may fail, next to drinks                         *)

SkipStep(i) ==
    \/ loadSettingsDone(i)
    \/ loadInitialData(i)
    \/ saveDailyState(i)
    \/ saveFails(i)
    \/ handleSkipContinues(i)
    \/ setDailyState(i)
    \/ cancelAllReminders(i)
    \/ scheduleReminders(i)
    \/ transportFails(i)

SkipNext ==
    \/ \E i \in 1..MaxTasks : SkipStep(i)
    \/ handleSkipReminder
    \/ \E amountML \in Amounts : recordConsumption(amountML)
    \/ \E currentTime \in ClockTimes : handleSkipFromNotification(currentTime)

SkipSpec == Init /\ [][SkipNext]_vars

----------------------------------------------------------------------------
(* The notification skip of a profile whose awake window crosses midnight   *)

\* awake from 22:00 to 01:00, a reminder every 60 minutes: 22:00, 23:00, 00:00
PNight == Profile(70, "mild", "light", Time(22, 0), Time(1, 0), 60)

\* after the first reminder of PNight has fired, and after its last one
NightTimes == { Time(22, 30), Time(0, 30) }

NightInit ==
    /\ today = FirstDay
    /\ settings = NULL
    /\ dailyState = NULL
    /\ isLoading = TRUE
    /\ storedSettings = PNight
    /\ \E d \in {NULL, Midday} :
         storedDaily = [dt \in Days |-> IF d # NULL /\ dt = d.date THEN d ELSE NULL]
    /\ transport = <<>>
    /\ screen = InitialScreen
    /\ tasks = << Task("loadInitialData", "loadSettings", NULL, NULL, 0, NULL, NULL, 0, <<>>, NULL) >>
    /\ result = NoResult
    /\ nOps = 0
    /\ calc = NoCall

NightStep(i) ==
    \/ loadSettingsDone(i)
    \/ loadInitialData(i)
    \/ saveDailyState(i)
    \/ saveFails(i)
    \/ handleSkipContinues(i)
    \/ cancelAllReminders(i)
    \/ scheduleReminders(i)
    \/ transportFails(i)

NightNext ==
    \/ \E i \in 1..MaxTasks : NightStep(i)
    \/ \E currentTime \in NightTimes : handleSkipFromNotification(currentTime)

NightSpec == NightInit /\ [][NightNext]_vars

----------------------------------------------------------------------------
(* Notification skips followed by the next day: the skip's calls to the     *)
(* transport and the rollover of the interval                               *)

NextDayStep(i) ==
    \/ loadSettingsDone(i)
    \/ loadInitialData(i)
    \/ saveDailyState(i)
    \/ handleSkipContinues(i)
    \/ setDailyState(i)
    \/ cancelAllReminders(i)
    \/ scheduleReminders(i)

NextDayNext ==
    \/ \E i \in 1..MaxTasks : NextDayStep(i)
    \/ AdvanceDay
    \/ rolloverTick
    \/ \E currentTime \in ClockTimes : handleSkipFromNotification(currentTime)

NextDaySpec == Init /\ [][NextDayNext]_vars

----------------------------------------------------------------------------
(* The profile: what loads, refreshes, updateSettings, the onboarding       *)
(* completion, drinks and the rollover do to settings and its stored copy   *)

\* first run with nothing stored, or a stored profile and no day yet
ProfileInit ==
    /\ today = FirstDay
    /\ settings = NULL
    /\ dailyState = NULL
    /\ isLoading = TRUE
    /\ storedSettings \in {NULL, P0}
    /\ storedDaily = [dt \in Days |-> NULL]
    /\ transport = <<>>
    /\ screen = InitialScreen
    /\ tasks = << Task("loadInitialData", "loadSettings", NULL, NULL, 0, NULL, NULL, 0, <<>>, NULL) >>
    /\ result = NoResult
    /\ nOps = 0
    /\ calc = NoCall

ProfileStep(i) ==
    \/ loadSettingsDone(i)
    \/ loadInitialData(i)
    \/ refreshDataDone(i)
    \/ saveSettings(i)
    \/ saveDailyState(i)
    \/ updateSettingsContinues(i)
    \/ handleCompleteContinues(i)
    \/ setDailyState(i)
    \/ scheduleReminders(i)

ProfileNext ==
    \/ \E i \in 1..MaxTasks : ProfileStep(i)
    \/ AdvanceDay
    \/ rolloverTick
    \/ refreshData
    \/ handleComplete
    \/ \E updates \in GoalEdits : updateSettings(updates)
    \/ \E amountML \in DrinkAmounts : recordConsumption(amountML)

ProfileSpec == ProfileInit /\ [][ProfileNext]_vars

----------------------------------------------------------------------------
(* Profile edits: updateSettings with its two saves, which may fail, next   *)
(* to drinks                                                                *)

SettingsStep(i) ==
    \/ loadSettingsDone(i)
    \/ loadInitialData(i)
    \/ saveSettings(i)
    \/ saveDailyState(i)
    \/ saveFails(i)
    \/ updateSettingsContinues(i)
    \/ setDailyState(i)

SettingsNext ==
    \/ \E i \in 1..MaxTasks : SettingsStep(i)
    \/ \E updates \in Updates : updateSettings(updates)
    \/ \E amountML \in Amounts : recordConsumption(amountML)

SettingsSpec == Init /\ [][SettingsNext]_vars

----------------------------------------------------------------------------
(* The functions of the context called by a consumer while the provider is  *)
(* not initialized: during the initial load, or with no profile stored      *)

Uninitialized == settings = NULL \/ dailyState = NULL

earlyCall ==
    /\ CanCall
    /\ Uninitialized
    /\ \/ \E amountML \in Amounts : recordConsumptionCall(amountML)
       \/ skipReminderCall
       \/ completeReminderCall
       \/ \E updates \in Updates : updateSettingsCall(updates)
       \/ resetDayCall
       \/ \E currentTime \in ClockTimes : handleSkipFromNotificationCall(currentTime)

EarlyStep(i) ==
    \/ loadSettingsDone(i)
    \/ loadInitialData(i)
    \/ saveSettings(i)
    \/ saveDailyState(i)
    \/ saveFails(i)
    \/ updateSettingsContinues(i)
    \/ setDailyState(i)

EarlyNext ==
    \/ \E i \in 1..MaxTasks : EarlyStep(i)
    \/ earlyCall

EarlySpec == Init /\ [][EarlyNext]_vars

----------------------------------------------------------------------------
(* The reminders at the transport: the settings screen, the onboarding      *)
(* screen and the notification skip, with saves and transport calls that    *)
(* may fail                                                                 *)

ReminderStep(i) ==
    \/ loadSettingsDone(i)
    \/ loadInitialData(i)
    \/ saveSettings(i)
    \/ saveDailyState(i)
    \/ saveFails(i)
    \/ updateSettingsContinues(i)
    \/ handleSkipContinues(i)
    \/ handleCompleteContinues(i)
    \/ cancelAllReminders(i)
    \/ scheduleReminders(i)
    \/ transportFails(i)

ReminderNext ==
    \/ \E i \in 1..MaxTasks : ReminderStep(i)
    \/ handleComplete
    \/ \E updates \in GoalEdits : handleGoalFactorChange(updates)
    \/ \E updates \in ScheduleEdits : handleScheduleChange(updates)
    \/ \E currentTime \in ClockTimes : handleSkipFromNotification(currentTime)

ReminderSpec == Init /\ [][ReminderNext]_vars

----------------------------------------------------------------------------
(* utils/hydration.ts: each function applied once to arguments drawn from   *)
(* bounded sets, the application not running                                *)

MaxWeight == 500
MaxLeft == 8
MaxDrunk == 610

AppVars == <<today, settings, dailyState, isLoading, storedSettings, storedDaily,
             transport, screen, tasks, result, nOps>>

NotRunning ==
    /\ today = FirstDay
    /\ settings = NULL
    /\ dailyState = NULL
    /\ isLoading = TRUE
    /\ storedSettings = NULL
    /\ storedDaily = [dt \in Days |-> NULL]
    /\ transport = <<>>
    /\ screen = InitialScreen
    /\ tasks = <<>>
    /\ result = NoResult
    /\ nOps = 0

ClimateTypes == DOMAIN climateAdjustments

ActivityLevels == DOMAIN activityAdjustments

GoalInit ==
    /\ NotRunning
    /\ \E weight \in 1..MaxWeight, climate \in ClimateTypes, activity \in ActivityLevels :
         calc = [fn |-> "calculateDailyGoal", returned |-> FALSE, weight |-> weight,
                 climate |-> climate, activity |-> activity, value |-> 0]

calculateDailyGoalReturns ==
    /\ calc.fn = "calculateDailyGoal"
    /\ ~calc.returned
    /\ calc' = [calc EXCEPT !.returned = TRUE,
                            !.value = calculateDailyGoal(calc.weight, calc.climate,
                                                         calc.activity)]
    /\ UNCHANGED AppVars

GoalSpec == GoalInit /\ [][calculateDailyGoalReturns]_vars

DayTimes == { Time(h, m) : h \in 0..23, m \in {0, 30, 45} }

Frequencies == {60, 90}

ScheduleGoals == {-170, 0, 440, 2440, 3340}

ScheduleInit ==
    /\ NotRunning
    /\ \E wakeTime \in DayTimes, sleepTime \in DayTimes, frequency \in Frequencies,
          dailyGoalML \in ScheduleGoals :
         calc = [fn |-> "computeReminderSchedule", returned |-> FALSE,
                 wakeTime |-> wakeTime, sleepTime |-> sleepTime,
                 frequency |-> frequency, dailyGoalML |-> dailyGoalML, value |-> <<>>]

computeReminderScheduleReturns ==
    /\ calc.fn = "computeReminderSchedule"
    /\ ~calc.returned
    /\ calc' = [calc EXCEPT !.returned = TRUE,
                            !.value = computeReminderSchedule(calc.wakeTime, calc.sleepTime,
                                          calc.frequency, calc.dailyGoalML)]
    /\ UNCHANGED AppVars

ScheduleSpec == ScheduleInit /\ [][computeReminderScheduleReturns]_vars

\* scheduleReminders handed the schedule of a profile, as the screens do
FilterInit ==
    /\ NotRunning
    /\ \E wakeTime \in DayTimes, sleepTime \in DayTimes, frequency \in Frequencies :
         calc = [fn |-> "scheduleReminders", returned |-> FALSE,
                 wakeTime |-> wakeTime, sleepTime |-> sleepTime,
                 schedule |-> NotificationSchedule(
                                  computeReminderSchedule(wakeTime, sleepTime, frequency, 2440)),
                 value |-> <<>>]

scheduleRemindersReturns ==
    /\ calc.fn = "scheduleReminders"
    /\ ~calc.returned
    /\ calc' = [calc EXCEPT !.returned = TRUE,
                            !.value = Scheduled(calc.schedule, calc.wakeTime, calc.sleepTime)]
    /\ UNCHANGED AppVars

FilterSpec == FilterInit /\ [][scheduleRemindersReturns]_vars

SkipGoals == {-10, 0, 5, 440, 2440}

SkipInit ==
    /\ NotRunning
    /\ \E totalGoal \in SkipGoals, consumed \in (-10..MaxDrunk) \cup {2440, 2500},
          remindersLeft \in -1..MaxLeft :
         calc = [fn |-> "redistributeOnSkip", returned |-> FALSE, totalGoal |-> totalGoal,
                 consumed |-> consumed, remindersLeft |-> remindersLeft, value |-> 0]

redistributeOnSkipReturns ==
    /\ calc.fn = "redistributeOnSkip"
    /\ ~calc.returned
    /\ calc' = [calc EXCEPT !.returned = TRUE,
                            !.value = redistributeOnSkip(calc.totalGoal, calc.consumed,
                                                         calc.remindersLeft)]
    /\ UNCHANGED AppVars

RedistributeSpec == SkipInit /\ [][redistributeOnSkipReturns]_vars

----------------------------------------------------------------------------
(* Properties *)

Tasks == 1..Len(tasks)

\* operation i resolves successfully in this step
Resolves(i) == tasks' = Remove(tasks, i) /\ result' = "ok"

\* C1: a recordConsumption(a) that resolves on the state it was started from
\* (the previous call has resolved and is visible, the goal is unchanged)
\* leaves consumedML = previous consumedML + a and
\* remainingML = max(0, dailyGoalML - consumedML), which is never negative;
\* by induction the k-th call leaves the initial consumedML plus a_1+...+a_k.
C1_ConsumptionAdditive ==
    [][\A i \in Tasks :
          (/\ setDailyState(i)
           /\ tasks[i].op = "recordConsumption"
           /\ tasks[i].d = dailyState
           /\ tasks[i].s = settings)
          => /\ dailyState'.consumedML = dailyState.consumedML + tasks[i].a
             /\ dailyState'.remainingML =
                    Max(0, settings.dailyGoalML - dailyState'.consumedML)
             /\ dailyState'.remainingML >= 0]_vars

\* two calls of 1500 ml on a goal of 2440 ml have resolved: 3000 consumed, 0 remaining
C1_Witness ==
    /\ tasks = <<>>
    /\ result = "ok"
    /\ dailyState # NULL
    /\ settings # NULL
    /\ dailyState.date = today
    /\ dailyState.consumedML = 3000
    /\ dailyState.consumedML > settings.dailyGoalML
    /\ dailyState.remainingML = 0

\* C2: when the Drink Now handler (recordConsumption(a), then completeReminder())
\* finishes, consumedML has grown by a and remindersCompleted by 1 compared
\* with the state the handler was started from.
C2_DrinkNowKeepsBoth ==
    [][\A i \in Tasks :
          (setDailyState(i) /\ tasks[i].op = "drinkNow")
          => /\ dailyState'.consumedML = tasks[i].d.consumedML + tasks[i].a
             /\ dailyState'.remindersCompleted = tasks[i].d.remindersCompleted + 1]_vars

\* C3: in every reachable state of a loaded DailyState, consumedML >= 0 and
\* remainingML >= 0.
C3_NeverNegative ==
    dailyState # NULL => dailyState.consumedML >= 0 /\ dailyState.remainingML >= 0

ChangesGoalFactor(updates) ==
    Has(updates, "weight") \/ Has(updates, "activity") \/ Has(updates, "climate")

DerivedRemaining(s, d) == d.remainingML = Max(0, s.dailyGoalML - d.consumedML)

\* C4: when an updateSettings that changes weight, activity or climate resolves
\* on a loaded day, remainingML = max(0, new dailyGoalML - consumedML).  (Stated
\* for an update that ran alone on a day whose remainingML was in step with the
\* goal before it.)
C4_RemainingFollowsGoal ==
    [][\A i \in Tasks :
          (/\ tasks[i].op = "updateSettings"
           /\ Resolves(i)
           /\ ChangesGoalFactor(tasks[i].upd)
           /\ Len(tasks) = 1
           /\ tasks[i].d # NULL
           /\ DerivedRemaining(tasks[i].s, tasks[i].d))
          => DerivedRemaining(settings', dailyState')]_vars

\* C5: the stored goal is always calculateDailyGoal of the stored weight, climate
\* and activity, after any updateSettings calls and in DEFAULT_SETTINGS.
GoalIsComputed(s) == s.dailyGoalML = calculateDailyGoal(s.weight, s.climate, s.activity)

C5_GoalAlwaysComputed ==
    /\ GoalIsComputed(DEFAULT_SETTINGS)
    /\ settings # NULL => GoalIsComputed(settings)

\* C6: a load (first load or refreshData) for a date with nothing persisted
\* under it yields a DailyState dated today with consumedML = 0, both counts 0
\* and remainingML = the profile's dailyGoalML.
C6_FreshDayHasGoal ==
    [][\A i \in Tasks :
          (/\ loadInitialData(i) \/ refreshDataDone(i)
           /\ storedDaily[tasks[i].day] = NULL
           /\ tasks[i].day = today
           /\ settings # NULL
           /\ Resolves(i))
          => dailyState' = NewDay(today, settings.dailyGoalML)]_vars

\* C7: the state a rollover tick installs is the fresh state of the date and
\* profile the tick read: dated that day, consumedML = 0, both counts 0,
\* remainingML = dailyGoalML; nothing of the previous day is carried over.
C7_RolloverIsFresh ==
    [][\A i \in Tasks :
          (setDailyState(i) /\ tasks[i].op = "rollover" /\ tasks[i].s # NULL)
          => /\ tasks[i].d.date # tasks[i].day
             /\ dailyState'.date = tasks[i].day
             /\ dailyState'.consumedML = 0
             /\ dailyState'.remainingML = tasks[i].s.dailyGoalML
             /\ dailyState'.remindersCompleted = 0
             /\ dailyState'.remindersSkipped = 0
             /\ (tasks[i].day = today => dailyState'.date = today)]_vars

\* the day after a day with consumption and a completed reminder, rolled over
C7_Witness ==
    /\ tasks = <<>>
    /\ today = FirstDay + 1
    /\ settings # NULL
    /\ dailyState = NewDay(today, settings.dailyGoalML)
    /\ storedDaily[today] = dailyState
    /\ storedDaily[FirstDay] # NULL
    /\ storedDaily[FirstDay].consumedML > 0
    /\ storedDaily[FirstDay].remindersCompleted > 0

\* C8: with the interval firing, saves succeeding and finitely many user
\* operations, the in-memory DailyState ends up dated today and stays so
\* (until the date changes again).
C8_RolloverEventually ==
    <>[](dailyState # NULL /\ dailyState.date = today)

\* an operation that was awaiting its save has put yesterday's state back
\* over the rolled-over one
C8_Witness ==
    /\ tasks = <<>>
    /\ today = FirstDay + 1
    /\ dailyState # NULL
    /\ dailyState.date = FirstDay
    /\ storedDaily[today] # NULL

LedgerOps == {"recordConsumption", "handleSkipReminder", "completeReminder"}

\* C9: a recordConsumption, skipReminder or completeReminder invoked after the
\* date has changed and before the timer fired leaves the DailyState dated
\* today, its effect applied to today's fresh state.
C9_AccessRollsOver ==
    [][\A i \in Tasks :
          (/\ setDailyState(i)
           /\ tasks[i].op \in LedgerOps
           /\ tasks[i].d.date # tasks[i].day
           /\ tasks[i].day = today)
          => /\ dailyState'.date = today
             /\ tasks[i].op = "recordConsumption"
                    => dailyState'.consumedML = tasks[i].a]_vars

SkipOps == {"handleSkipReminder", "handleSkipFromNotification"}

\* C10: every skip that resolves, from the Home screen or from a notification,
\* has raised remindersSkipped by exactly 1 and ends by telling the transport
\* to cancel all reminders (and to schedule the remaining ones).
C10_SkipTellsTransport ==
    [][\A i \in Tasks :
          (tasks[i].op \in SkipOps /\ Resolves(i))
          => /\ dailyState'.remindersSkipped = tasks[i].d.remindersSkipped + 1
             /\ cancelAllReminders(i) \/ scheduleReminders(i)]_vars

\* what is to be rescheduled after a skip at currentTime: every slot later than
\* currentTime, each with the redistributed amount
FutureSlots(s, d, currentTime) ==
    LET schedule == computeReminderSchedule(s.wakeTime, s.sleepTime,
                        s.reminderFrequency, s.dailyGoalML)
        currentMinutes == parseTimeToMinutes(currentTime)
        later == SelectSeq(schedule,
                     LAMBDA r : parseTimeToMinutes(r.time) > currentMinutes)
        amount == redistributeOnSkip(s.dailyGoalML, d.consumedML, Len(later))
    IN  [k \in 1..Len(later) |->
            [hour |-> later[k].time.h, minute |-> later[k].time.m,
             mlAmount |-> amount]]

\* C11: when a notification skip handled at time t (wake < sleep, at least one
\* slot later than t) goes on to the transport, the reminders it hands over are
\* exactly the slots later than t, each with the amount
\* redistributeOnSkip(goal, consumed, number of those slots); none is dropped.
C11_FutureSlotsRescheduled ==
    [][\A i \in Tasks : \A t \in ClockTimes :
          (/\ handleSkipContinues(i)
           /\ parseTimeToMinutes(tasks[i].s.wakeTime)
                  < parseTimeToMinutes(tasks[i].s.sleepTime)
           /\ tasks[i].upd = t
           /\ Len(FutureSlots(tasks[i].s, tasks[i].d, t)) >= 1)
          => /\ tasks'[i].pc = "cancel"
             /\ tasks'[i].rem = FutureSlots(tasks[i].s, tasks[i].d, t)]_vars

\* C12: on every skip the remindersLeft that goes to redistributeOnSkip is
\* totalPlanned - remindersCompleted - remindersSkipped, with the reminder
\* being skipped already counted in remindersSkipped; on the Home-screen path
\* and on the notification path (where redistributeOnSkip is called when
\* remindersLeft > 0).
C12_RemindersLeftFormula ==
    [][(/\ handleSkipReminder \/ \E t \in ClockTimes : handleSkipFromNotification(t)
        /\ Len(tasks') = Len(tasks) + 1)
       => LET new == tasks'[Len(tasks')]
              totalPlanned == Len(computeReminderSchedule(settings.wakeTime,
                                  settings.sleepTime, settings.reminderFrequency,
                                  settings.dailyGoalML))
          IN  (new.op = "handleSkipReminder" \/ new.a > 0)
              => new.a = totalPlanned - dailyState.remindersCompleted
                            - (dailyState.remindersSkipped + 1)]_vars

C18_TransportFailureKeepsSkip ==
    [][\A i \in Tasks :
          (transportFails(i) /\ tasks[i].op = "handleSkipFromNotification")
          => /\ dailyState' = dailyState
             /\ storedDaily' = storedDaily
             /\ dailyState = tasks[i].out
                    => dailyState'.remindersSkipped = tasks[i].d.remindersSkipped + 1
             /\ storedDaily[tasks[i].out.date] = tasks[i].out
                    => storedDaily'[tasks[i].d.date].remindersSkipped =
                           tasks[i].d.remindersSkipped + 1]_vars

\* the only operation of a fresh day was a notification skip whose transport
\* call failed: the skip is counted in memory and in persistence
C18_Witness ==
    /\ tasks = <<>>
    /\ nOps = 1
    /\ result = "rejected"
    /\ dailyState # NULL
    /\ dailyState.date = today
    /\ dailyState.remindersCompleted = 0
    /\ dailyState.remindersSkipped = 1
    /\ storedDaily[today] = dailyState

\* C14: in every reachable state of a loaded day, remindersCompleted +
\* remindersSkipped is at most the number of slots of the schedule generated
\* from the current profile.
C14_CountsWithinPlan ==
    (settings # NULL /\ dailyState # NULL /\ dailyState.date = today)
    => dailyState.remindersCompleted + dailyState.remindersSkipped
          <= Len(computeReminderSchedule(settings.wakeTime, settings.sleepTime,
                     settings.reminderFrequency, settings.dailyGoalML))

\* a step in which a drink, a skip, a completion, a settings update or a
\* notification handler sets the DailyState
SetsDailyState(i) ==
    \/ drinkNowContinues(i)
    \/ handleSkipContinues(i)
    \/ /\ setDailyState(i)
       /\ tasks[i].op \in {"recordConsumption", "completeReminder", "handleSkipReminder",
                           "updateSettings", "drinkNow"}

\* C15: within one calendar date consumedML never decreases across a step of
\* recordConsumption, skipReminder, completeReminder, updateSettings or a
\* notification handler, also when a handler chains two operations or
\* operations overlap.
C15_ConsumedMonotonic ==
    [][\A i \in Tasks :
          (/\ SetsDailyState(i)
           /\ dailyState # NULL
           /\ dailyState'.date = dailyState.date)
          => dailyState'.consumedML >= dailyState.consumedML]_vars

NeedsDailyState ==
    {"recordConsumption", "skipReminder", "completeReminder", "handleSkipFromNotification"}

NeedsSettings ==
    {"recordConsumption", "updateSettings", "resetDay", "handleSkipFromNotification"}

StateChangingOps ==
    {"recordConsumption", "skipReminder", "handleSkipReminder", "completeReminder",
     "updateSettings", "resetDay", "handleSkipFromNotification"}

\* operation i is the only operation since the load, invoked on today's state
RanAlone(i) ==
    /\ nOps = 1
    /\ Len(tasks) = 1
    /\ tasks[i].day = today
    /\ tasks[i].d # NULL
    /\ tasks[i].d.date = today

\* C19: when a persistence write of a state-changing operation rejects, the
\* operation rejects and settings and dailyState are what they were when it
\* was invoked: no operation, updateSettings in particular, is left half
\* applied.
C19_AllOrNothing ==
    [][\A i \in Tasks :
          (/\ saveFails(i)
           /\ tasks[i].op \in StateChangingOps
           /\ RanAlone(i))
          => /\ result' = "rejected"
             /\ settings' = tasks[i].s
             /\ dailyState' = tasks[i].d]_vars

\* C20: when the persistence write of recordConsumption, skipReminder or
\* completeReminder rejects, the operation rejects and the DailyState in
\* memory holds the updated values it tried to save.
C20_FailedSaveKeepsUpdate ==
    [][\A i \in Tasks :
          (/\ saveFails(i)
           /\ tasks[i].op \in {"recordConsumption", "skipReminder",
                               "handleSkipReminder", "completeReminder"})
          => /\ result' = "rejected"
             /\ dailyState' = tasks[i].out]_vars

----------------------------------------------------------------------------
(* The reminders at the transport *)

\* the whole reminder list of a profile, as the transport is handed it
FullSchedule(s) ==
    NotificationSchedule(computeReminderSchedule(s.wakeTime, s.sleepTime,
                                                 s.reminderFrequency, s.dailyGoalML))

\* C21: when a change of wake time, sleep time or reminder frequency completes
\* at the transport, the transport holds exactly the whole reminder list of
\* the updated profile: every slot of computeReminderSchedule(wake, sleep,
\* frequency, goal), each with the base amount.
C21_ChangeReschedulesInFull ==
    [][\A i \in Tasks :
          (scheduleReminders(i) /\ tasks[i].op = "handleScheduleChange")
          => transport' = FullSchedule(settings')]_vars

\* C22: when an edit of weight, activity or climate that changed the daily goal
\* completes, every reminder the transport holds carries the per-reminder
\* amount of the new goal: the transport holds the whole reminder list of the
\* updated profile.
C22_GoalChangeReschedules ==
    [][\A i \in Tasks :
          (/\ updateSettingsContinues(i)
           /\ tasks[i].op = "handleGoalFactorChange"
           /\ settings'.dailyGoalML # settings.dailyGoalML
           /\ transport # <<>>)
          => transport' = FullSchedule(settings')]_vars

\* C23: the transport never holds two reminders for the same time of day.
C23_OneReminderPerTime ==
    \A j, k \in 1..Len(transport) :
        (transport[j].hour = transport[k].hour /\ transport[j].minute = transport[k].minute)
        => j = k

\* C30: when an operation's call of scheduleReminders / rescheduleReminders
\* returns, dailyState.scheduledReminderIds holds the identifiers it returned,
\* one for each notification created, and when its call of cancelAllReminders
\* alone returns the list is empty.
C30_IdsOfLastScheduling ==
    [][\A i \in Tasks :
          /\ scheduleReminders(i)
                => Len(dailyState'.scheduledReminderIds)
                       = Len(Scheduled(tasks[i].rem, tasks[i].win.wakeTime,
                                       tasks[i].win.sleepTime))
          /\ (cancelAllReminders(i) /\ tasks[i].pc = "cancelOnly")
                => dailyState'.scheduledReminderIds = <<>>]_vars

----------------------------------------------------------------------------
(* The functions of utils/hydration.ts *)

Abs(x) == IF x < 0 THEN -x ELSE x

C25_SameDaySlots ==
    (/\ calc.fn = "computeReminderSchedule"
     /\ calc.returned
     /\ parseTimeToMinutes(calc.wakeTime) < parseTimeToMinutes(calc.sleepTime))
    => LET wake == calc.wakeTime.h * 60 + calc.wakeTime.m
           sleep == calc.sleepTime.h * 60 + calc.sleepTime.m
           f == calc.frequency
       IN  /\ Len(calc.value) = (sleep - wake) \div f
           /\ sleep - wake < f => calc.value = <<>>
           /\ \A k \in 1..Len(calc.value) :
                 /\ calc.value[k].index = k - 1
                 /\ calc.value[k].time.h * 60 + calc.value[k].time.m = wake + (k - 1) * f
                 /\ calc.value[k].time.h \in 0..23
                 /\ calc.value[k].time.m \in 0..59

C25_Witness ==
    /\ calc.fn = "computeReminderSchedule"
    /\ calc.returned
    /\ calc.wakeTime = Time(7, 30)
    /\ calc.sleepTime = Time(22, 45)
    /\ calc.frequency = 90
    /\ Len(calc.value) = 10
    /\ calc.value[10].time = Time(21, 0)

\* C26: for sleep <= wake, sleep equal to wake included, the window is
\* sleep + 1440 - wake minutes: computeReminderSchedule returns floor of it
\* divided by f slots, slot i at (wake + i * f) mod 1440, a time of day in
\* 00:00..23:59; (22:00, 06:00, 60) gives the 8 slots 22:00 .. 05:00.
C26_OvernightSlots ==
    (/\ calc.fn = "computeReminderSchedule"
     /\ calc.returned
     /\ parseTimeToMinutes(calc.sleepTime) <= parseTimeToMinutes(calc.wakeTime))
    => LET wake == calc.wakeTime.h * 60 + calc.wakeTime.m
           sleep == calc.sleepTime.h * 60 + calc.sleepTime.m
           f == calc.frequency
       IN  /\ Len(calc.value) = (sleep + 1440 - wake) \div f
           /\ \A k \in 1..Len(calc.value) :
                 /\ calc.value[k].time.h * 60 + calc.value[k].time.m
                        = (wake + (k - 1) * f) % 1440
                 /\ calc.value[k].time.h \in 0..23
                 /\ calc.value[k].time.m \in 0..59

\* C27: in a non-empty schedule for a goal that is a multiple of 10 every slot
\* carries the same amount, goal / count rounded to the nearest 10 (half up),
\* and amount * count is within 10 * count of the goal.
C27_EqualRoundedShares ==
    (/\ calc.fn = "computeReminderSchedule"
     /\ calc.returned
     /\ calc.value # <<>>
     /\ calc.dailyGoalML % 10 = 0)
    => LET count == Len(calc.value)
           perReminder == calc.value[1].amountML
       IN  /\ \A k \in 1..count : calc.value[k].amountML = perReminder
           /\ perReminder % 10 = 0
           /\ perReminder * count - calc.dailyGoalML > -5 * count
           /\ perReminder * count - calc.dailyGoalML <= 5 * count
           /\ Abs(perReminder * count - calc.dailyGoalML) <= 10 * count

C27_Witness ==
    /\ calc.fn = "computeReminderSchedule"
    /\ calc.returned
    /\ calc.dailyGoalML = 2440
    /\ Len(calc.value) = 3
    /\ calc.value[3].amountML = 810

C36_FilterKeepsEverySlot ==
    (calc.fn = "scheduleReminders" /\ calc.returned)
    => /\ Len(calc.value) = Len(calc.schedule)
       /\ calc.value = calc.schedule

C36_Witness ==
    /\ calc.fn = "scheduleReminders"
    /\ calc.returned
    /\ calc.wakeTime = Time(22, 0)
    /\ calc.sleepTime = Time(6, 0)
    /\ Len(calc.schedule) = 8
    /\ Len(calc.value) = 8

\* C37: calculateDailyGoal returns a strictly positive goal for every weight
\* in 1..500, every climate and every activity.
C37_GoalPositive ==
    (calc.fn = "calculateDailyGoal" /\ calc.returned /\ calc.weight \in 1..500)
    => calc.value > 0

\* C38: for remindersLeft > 0 and consumed < goal the amount redistributeOnSkip
\* returns is strictly positive.
C38_ShareIsPositive ==
    (/\ calc.fn = "redistributeOnSkip"
     /\ calc.returned
     /\ calc.remindersLeft > 0
     /\ calc.consumed < calc.totalGoal)
    => calc.value > 0

----------------------------------------------------------------------------
(* Skips in a window across midnight, overlapping operations, later days *)

\* the slots of the profile that come later in its awake window than
\* currentTime, counted from waking
LaterInWindow(s, currentTime) ==
    LET schedule == computeReminderSchedule(s.wakeTime, s.sleepTime,
                        s.reminderFrequency, s.dailyGoalML)
        wake == parseTimeToMinutes(s.wakeTime)
        SinceWake(minutes) == (minutes - wake + 1440) % 1440
    IN  SelectSeq(schedule,
                  LAMBDA r : SinceWake(parseTimeToMinutes(r.time))
                                 > SinceWake(parseTimeToMinutes(currentTime)))

\* C31: for a window that crosses midnight (sleep < wake) a notification skip
\* handled at a time t inside the window keeps as remaining exactly the slots
\* later in the window than t, those after midnight included, and it does not
\* go on to cancel every reminder while such slots exist.
C31_OvernightSkipKeepsLaterSlots ==
    [][\A t \in NightTimes :
          /\ (/\ handleSkipFromNotification(t)
              /\ parseTimeToMinutes(settings.sleepTime)
                     < parseTimeToMinutes(settings.wakeTime))
                => tasks'[Len(tasks')].rem = LaterInWindow(settings, t)
          /\ \A i \in Tasks :
                (/\ handleSkipContinues(i)
                 /\ tasks[i].upd = t
                 /\ parseTimeToMinutes(tasks[i].s.sleepTime)
                        < parseTimeToMinutes(tasks[i].s.wakeTime)
                 /\ tasks'[i].pc = "cancelOnly")
                => LaterInWindow(tasks[i].s, t) = <<>>]_vars

\* C32: when recordConsumption(a) and recordConsumption(b) were started from
\* the same rendered DailyState and the b call has resolved, the a call that
\* resolves leaves consumedML raised by a + b over that DailyState, and
\* remainingML = max(0, goal - consumedML).
C32_NoLostDrink ==
    [][\A i \in Tasks : \A b \in Amounts :
          (/\ setDailyState(i)
           /\ tasks[i].op = "recordConsumption"
           /\ tasks[i].s = settings
           /\ dailyState = ConsumptionState(settings, tasks[i].d, b))
          => /\ dailyState'.consumedML = tasks[i].d.consumedML + tasks[i].a + b
             /\ dailyState'.remainingML =
                    Max(0, settings.dailyGoalML - dailyState'.consumedML)]_vars

\* C33: in every quiescent state (no operation in flight) in which a
\* DailyState has been persisted under the key of the in-memory state's date,
\* the in-memory DailyState is that persisted value, also after operations
\* whose saves and state updates interleaved.
C33_MemoryIsStored ==
    (/\ tasks = <<>>
     /\ dailyState # NULL
     /\ storedDaily[dailyState.date] # NULL)
    => dailyState = storedDaily[dailyState.date]

\* C34: when the rollover to a new day completes, the reminders the transport
\* holds, which repeat daily, are the whole reminder list of the current
\* profile at the base amount, also when a skip of the previous day
\* rescheduled them with redistributed amounts.
C34_NewDayFullSchedule ==
    [][\A i \in Tasks :
          (/\ setDailyState(i)
           /\ tasks[i].op = "rollover"
           /\ settings # NULL
           /\ transport # <<>>)
          => transport' = FullSchedule(settings')]_vars

============================================================================
